---- MODULE Spec2Model ----
(***************************************************************************)
(* A model of the two command-line tools of the repository:               *)
(*   src/shape.rs  (shape FONTFILE SCRIPT LANG TEXT)                       *)
(*   src/dump.rs   (dump [-t TAG] [-i N] [-l] FONTFILE)                    *)
(* The font codec library (crate fontcode) is an external collaborator: each *)
(* call into it is modelled by the set of outcomes its signature allows    *)
(* (Ok(Some), Ok(None), Err), drawn when the code makes the call.          *)
(***************************************************************************)
EXTENDS Integers, Sequences, FiniteSets, TLC

(***************************************************************************)
(* Bounds of the model.                                                    *)
(***************************************************************************)
MaxTagLen == 5
MaxArgLen == 5
MaxText == 2
MaxFonts == 2
MaxGlyphs == 2

(***************************************************************************)
(* Program constants.                                                      *)
(***************************************************************************)
TagBytes == 4
SpaceChar == 32
DottedCircle == 9676

VARIABLES
  \* ---- shape.rs ----
  argv,      \* env::args(): [argc5, script, lang, text]
  mpc,       \* position of main / shape_ttc / shape_ttf
  tf,        \* the activation of tag_from_string: [s, i, tag, count, pc, ret]
  script,    \* Option<u32>: <<>> until line 22 has bound it
  lang,      \* Option<u32>: <<>> until line 23 has bound it
  result,    \* "running", or what main returned
  errAt,     \* the position at which an Err was raised ("" while none)
  fileRead,  \* read_file has been called
  kind,      \* the OpenTypeFont variant: "none" | "Single" | "Collection"
  nfonts,    \* ttc.offset_tables.len()
  fontIdx,   \* the iteration of shape_ttc's loop
  dir,       \* the table tags of the current font's table directory
  cmapState, \* what the current font's cmap turned out to hold
  sub,       \* Option<CmapSubtable>: <<m>> with m a map char -> lookup outcome
  glyphs,    \* the glyph vector of the current shape_ttf call
  out,       \* lines printed by the current shape_ttf call (or by main)
  calls      \* library calls made by the current shape_ttf call, in order

shapeVars == <<argv, mpc, tf, script, lang, result, errAt, fileRead, kind,
               nfonts, fontIdx, dir, cmapState, sub, glyphs, out, calls>>

VARIABLES
  \* ---- dump.rs ----
  opt,        \* the command line: [help, table, index, loca, file]
  tty,        \* atty::is(Stream::Stdout)
  dpc,        \* position of main and of the dump function it dispatched to
  dres,       \* "running", or how the process ended
  fileOpened, \* read_file has been called
  table,      \* Option<Tag>: the parsed -t argument
  index,      \* usize: the parsed -i argument
  container,  \* the FontFile variant: "none" | "Single" | "Collection" | "Woff" | "Woff2"
  dnfonts,    \* ttc.offset_tables.len()
  dfont,      \* the iteration of dump_ttc's loop
  ddir,       \* the table tags of the table directory in use
  head,       \* Option<HeadTable>: <<index_to_loc_format>>
  maxp,       \* Option<MaxpTable>: <<num_glyphs>>
  loca,       \* Option<LocaTable>: <<the dependency context it was decoded with>>
  dout,       \* standard output, a sequence of tokens
  derr        \* standard error, a sequence of tokens

dumpVars == <<opt, tty, dpc, dres, fileOpened, table, index, container, dnfonts,
              dfont, ddir, head, maxp, loca, dout, derr>>

vars == <<shapeVars, dumpVars>>

(***************************************************************************)
(* Characters and strings.  A string is a sequence of Unicode scalar       *)
(* values; str::len is its length in UTF-8 bytes.                          *)
(***************************************************************************)
RECURSIVE SeqsUpTo(_, _)
SeqsUpTo(S, n) ==
  IF n = 0 THEN {<<>>}
  ELSE LET shorter == SeqsUpTo(S, n - 1)
       IN  shorter \cup {Append(q, c) : q \in {x \in shorter : Len(x) = n - 1}, c \in S}

Utf8Len(c) == IF c < 128 THEN 1 ELSE IF c < 2048 THEN 2 ELSE IF c < 65536 THEN 3 ELSE 4

RECURSIVE StrLen(_)
StrLen(s) == IF s = <<>> THEN 0 ELSE Utf8Len(Head(s)) + StrLen(Tail(s))

IsAscii(c) == c < 128

IsAsciiControl(c) == c < 32 \/ c = 127

\* (tag << 8) | c on a u32, for c < 256: the top byte is shifted out.
Shl8Or(tag, c) == (tag % 16777216) * 256 + c

(***************************************************************************)
(* tag_from_string (src/shape.rs 163-185), one action per step of its      *)
(* control flow.                                                           *)
(***************************************************************************)
TagIdle == [s |-> <<>>, i |-> 1, tag |-> 0, count |-> 0, pc |-> "idle", ret |-> <<>>]

TagCall(s) == [s |-> s, i |-> 1, tag |-> 0, count |-> 0, pc |-> "len", ret |-> <<>>]

TagErr == [ok |-> FALSE, tag |-> 0]

TagOk(t) == [ok |-> TRUE, tag |-> t]

TooLong(s) == StrLen(s) > TagBytes

BadChar(c) == ~IsAscii(c) \/ IsAsciiControl(c)

\* while count < 4
PadCond(count) == count < TagBytes

\* lines 164-166
TagCheckLen ==
  /\ tf.pc = "len"
  /\ tf' = IF TooLong(tf.s)
             THEN [tf EXCEPT !.pc = "ret", !.ret = <<TagErr>>]
             ELSE [tf EXCEPT !.pc = "for"]
  /\ UNCHANGED dumpVars
  /\ UNCHANGED <<argv, mpc, script, lang, result, errAt, fileRead, kind, nfonts,
                 fontIdx, dir, cmapState, sub, glyphs, out, calls>>

\* lines 171-178, one iteration
TagForChar ==
  /\ tf.pc = "for"
  /\ tf.i <= Len(tf.s)
  /\ LET c == tf.s[tf.i]
     IN  tf' = IF BadChar(c)
                 THEN [tf EXCEPT !.pc = "ret", !.ret = <<TagErr>>]
                 ELSE [tf EXCEPT !.tag = Shl8Or(tf.tag, c),
                                 !.count = tf.count + 1,
                                 !.i = tf.i + 1]
  /\ UNCHANGED dumpVars
  /\ UNCHANGED <<argv, mpc, script, lang, result, errAt, fileRead, kind, nfonts,
                 fontIdx, dir, cmapState, sub, glyphs, out, calls>>

\* line 171, the iterator is exhausted
TagForEnd ==
  /\ tf.pc = "for"
  /\ tf.i > Len(tf.s)
  /\ tf' = [tf EXCEPT !.pc = "while"]
  /\ UNCHANGED dumpVars
  /\ UNCHANGED <<argv, mpc, script, lang, result, errAt, fileRead, kind, nfonts,
                 fontIdx, dir, cmapState, sub, glyphs, out, calls>>

\* line 180: the loop condition holds, control enters the body
TagPadTest ==
  /\ tf.pc = "while"
  /\ PadCond(tf.count)
  /\ tf' = [tf EXCEPT !.pc = "pad"]
  /\ UNCHANGED dumpVars
  /\ UNCHANGED <<argv, mpc, script, lang, result, errAt, fileRead, kind, nfonts,
                 fontIdx, dir, cmapState, sub, glyphs, out, calls>>

\* line 181, the loop body: it assigns tag and nothing else, and control
\* goes back to the condition
TagPad ==
  /\ tf.pc = "pad"
  /\ tf' = [tf EXCEPT !.tag = Shl8Or(tf.tag, SpaceChar), !.pc = "while"]
  /\ UNCHANGED dumpVars
  /\ UNCHANGED <<argv, mpc, script, lang, result, errAt, fileRead, kind, nfonts,
                 fontIdx, dir, cmapState, sub, glyphs, out, calls>>

\* line 184
TagReturn ==
  /\ tf.pc = "while"
  /\ ~PadCond(tf.count)
  /\ tf' = [tf EXCEPT !.pc = "ret", !.ret = <<TagOk(tf.tag)>>]
  /\ UNCHANGED dumpVars
  /\ UNCHANGED <<argv, mpc, script, lang, result, errAt, fileRead, kind, nfonts,
                 fontIdx, dir, cmapState, sub, glyphs, out, calls>>

TagNext == TagCheckLen \/ TagForChar \/ TagForEnd \/ TagPadTest \/ TagPad \/ TagReturn

(***************************************************************************)
(* Specification of tag_from_string alone, over every string of at most    *)
(* MaxTagLen characters of TagChars: two printable ASCII letters, two      *)
(* ASCII controls, and a two-byte and a three-byte non-ASCII character.    *)
(***************************************************************************)
TagChars == {97, 122, 31, 127, 233, 8364}

TagStrings == SeqsUpTo(TagChars, MaxTagLen)

NoArgs == [argc5 |-> FALSE, script |-> <<>>, lang |-> <<>>, text |-> <<>>]

ShapeIdle ==
  /\ script = <<>>
  /\ lang = <<>>
  /\ result = "running"
  /\ errAt = ""
  /\ fileRead = FALSE
  /\ kind = "none"
  /\ nfonts = 0
  /\ fontIdx = 0
  /\ dir = {}
  /\ cmapState = "unread"
  /\ sub = <<>>
  /\ glyphs = <<>>
  /\ out = <<>>
  /\ calls = <<>>

NoOpts == [help |-> FALSE, table |-> <<>>, index |-> <<>>, loca |-> FALSE, file |-> FALSE]

DumpIdle ==
  /\ opt = NoOpts
  /\ tty = FALSE
  /\ dpc = "idle"
  /\ dres = "running"
  /\ fileOpened = FALSE
  /\ table = <<>>
  /\ index = 0
  /\ container = "none"
  /\ dnfonts = 0
  /\ dfont = 0
  /\ ddir = {}
  /\ head = <<>>
  /\ maxp = <<>>
  /\ loca = <<>>
  /\ dout = <<>>
  /\ derr = <<>>

InitTag ==
  /\ argv = NoArgs
  /\ mpc = "tag_only"
  /\ \E s \in TagStrings : tf = TagCall(s)
  /\ ShapeIdle
  /\ DumpIdle

SpecTag == InitTag /\ [][TagNext]_vars

\* The function runs on one thread that is never descheduled for good.
FairSpecTag == SpecTag /\ WF_vars(TagNext)

(***************************************************************************)
(* The shaping pipeline of src/shape.rs.                                   *)
(***************************************************************************)
TextChars == {65, 66}

GlyphIds == {3, 7}

\* What CmapSubtable::map_glyph may answer for one character.
LookupOutcomes == {<<"Err">>, <<"None">>} \cup {<<"Some", g>> : g \in GlyphIds}

\* A cmap subtable, as far as the tool reads it: the answer for each character
\* of the text and for the dotted circle.
Subtables == [TextChars \cup {DottedCircle} -> LookupOutcomes]

FontTags == {"cmap", "GSUB", "GDEF"}

Line(k) == [k |-> k, g |-> <<>>, r |-> FALSE]

GlyphLine(k, g) == [k |-> k, g |-> g, r |-> FALSE]

ResLine(r) == [k |-> "res", g |-> <<>>, r |-> r]

\* make_glyph, lines 148-161
MakeGlyph(ch, glyph_index) ==
  [unicodes |-> <<ch>>,
   glyph_index |-> <<glyph_index>>,
   liga_component_pos |-> 0,
   glyph_origin |-> <<"Char", ch>>,
   flags |-> {}]

\* A map_glyph that answers .notdef for an unmapped character.
MapGlyphNotdef(m, ch) ==
  IF m[ch][1] = "Err" THEN [err |-> TRUE, opt |-> <<>>]
  ELSE IF m[ch][1] = "Some" THEN [err |-> FALSE, opt |-> <<MakeGlyph(ch, m[ch][2])>>]
  ELSE [err |-> FALSE, opt |-> <<MakeGlyph(ch, 0)>>]

\* map_glyph, lines 139-146: Result<Option<RawGlyph>>
MapGlyph(m, ch) ==
  IF m[ch][1] = "Err" THEN [err |-> TRUE, opt |-> <<>>]
  ELSE IF m[ch][1] = "Some" THEN [err |-> FALSE, opt |-> <<MakeGlyph(ch, m[ch][2])>>]
  ELSE [err |-> FALSE, opt |-> <<>>]

\* lines 78-82: text.chars().map(map_glyph).collect::<Result<Vec<_>, _>>(),
\* which stops at the first Err.  n counts the lookups made.
RECURSIVE MapText(_, _)
MapText(m, text) ==
  IF text = <<>> THEN [err |-> FALSE, opts |-> <<>>, n |-> 0]
  ELSE LET r == MapGlyph(m, Head(text))
       IN  IF r.err THEN [err |-> TRUE, opts |-> <<>>, n |-> 1]
           ELSE LET rest == MapText(m, Tail(text))
                IN  [err |-> rest.err,
                     opts |-> IF rest.err THEN <<>> ELSE <<r.opt>> \o rest.opts,
                     n |-> rest.n + 1]

\* line 83: opt_glyphs.into_iter().flatten().collect()
RECURSIVE Flatten(_)
Flatten(opts) == IF opts = <<>> THEN <<>> ELSE Head(opts) \o Flatten(Tail(opts))

\* make_dotted_circle, lines 132-137
MakeDottedCircle(m) ==
  LET r == MapGlyph(m, DottedCircle)
  IN  IF ~r.err /\ r.opt # <<>> THEN r.opt ELSE <<>>

Repeat(x, n) == [i \in 1..n |-> x]

\* A lookup of cmap that never misses.
HasCmapAlways(d) == TRUE

\* line 66: ttf.read_table(scope, tag::CMAP) is Some
HasCmap(d) == "cmap" \in d

\* A lookup of GSUB that also settles for GDEF.
HasGsubOrGdef(d) == "GSUB" \in d \/ "GDEF" \in d

\* line 85: ttf.find_table_record(tag::GSUB) is Some
HasGsub(d) == "GSUB" \in d

\* line 87: ttf.find_table_record(tag::GDEF) is Some
HasGdef(d) == "GDEF" \in d

Fail(e) ==
  /\ result' = e
  /\ errAt' = mpc
  /\ mpc' = "exit"

\* main, lines 14-22
ShapeMainArgs ==
  /\ mpc = "start"
  /\ IF ~argv.argc5
       THEN /\ mpc' = "exit"
            /\ result' = "Ok"
            /\ out' = Append(out, Line("usage"))
            /\ tf' = tf
       ELSE /\ mpc' = "script"
            /\ tf' = TagCall(argv.script)
            /\ UNCHANGED <<result, out>>
  /\ UNCHANGED dumpVars
  /\ UNCHANGED <<argv, script, lang, errAt, fileRead, kind, nfonts, fontIdx, dir,
                 cmapState, sub, glyphs, calls>>

\* main, line 22 (the ? on its result) and the call of line 23
ShapeMainScript ==
  /\ mpc = "script"
  /\ tf.pc = "ret"
  /\ IF tf.ret[1].ok
       THEN /\ script' = <<tf.ret[1].tag>>
            /\ tf' = TagCall(argv.lang)
            /\ mpc' = "lang"
            /\ UNCHANGED <<result, errAt>>
       ELSE /\ Fail("BadValue")
            /\ UNCHANGED <<script, tf>>
  /\ UNCHANGED dumpVars
  /\ UNCHANGED <<argv, lang, fileRead, kind, nfonts, fontIdx, dir, cmapState, sub,
                 glyphs, out, calls>>

\* main, lines 23-24
ShapeMainLang ==
  /\ mpc = "lang"
  /\ tf.pc = "ret"
  /\ IF tf.ret[1].ok
       THEN /\ lang' = <<tf.ret[1].tag>>
            /\ tf' = TagIdle
            /\ mpc' = "read_file"
            /\ UNCHANGED <<result, errAt>>
       ELSE /\ Fail("BadValue")
            /\ UNCHANGED <<lang, tf>>
  /\ UNCHANGED dumpVars
  /\ UNCHANGED <<argv, script, fileRead, kind, nfonts, fontIdx, dir, cmapState, sub,
                 glyphs, out, calls>>

\* main line 25 and read_file, lines 37-42
ShapeReadFile ==
  /\ mpc = "read_file"
  /\ fileRead' = TRUE
  /\ \/ /\ mpc' = "parse"
        /\ UNCHANGED <<result, errAt>>
     \/ Fail("Io")
  /\ UNCHANGED dumpVars
  /\ UNCHANGED <<argv, tf, script, lang, kind, nfonts, fontIdx, dir, cmapState, sub,
                 glyphs, out, calls>>

\* The state of a shape_ttf call on entry, for the font with directory d.
EnterShapeTtf(d) ==
  /\ dir' = d
  /\ cmapState' = "unread"
  /\ sub' = <<>>
  /\ glyphs' = <<>>
  /\ out' = <<>>
  /\ calls' = <<>>
  /\ mpc' = "cmap"

\* main, lines 27-32
ShapeParseFile ==
  /\ mpc = "parse"
  /\ \/ /\ Fail("Parse")
        /\ UNCHANGED <<kind, nfonts, fontIdx, dir, cmapState, sub, glyphs, out, calls>>
     \/ /\ kind' = "Single"
        /\ nfonts' = 1
        /\ \E d \in SUBSET FontTags : EnterShapeTtf(d)
        /\ UNCHANGED <<result, errAt, fontIdx>>
     \/ /\ kind' = "Collection"
        /\ \E n \in 1..MaxFonts : nfonts' = n
        /\ mpc' = "ttc_loop"
        /\ UNCHANGED <<result, errAt, fontIdx, dir, cmapState, sub, glyphs, out, calls>>
  /\ UNCHANGED dumpVars
  /\ UNCHANGED <<argv, tf, script, lang, fileRead>>

\* shape_ttc, lines 51-56: one iteration, or the end of the loop and main's Ok(())
ShapeTtcFont ==
  /\ mpc = "ttc_loop"
  /\ \/ /\ fontIdx < nfonts
        /\ Fail("Parse")
        /\ UNCHANGED <<dir, cmapState, sub, glyphs, out, calls>>
     \/ /\ fontIdx < nfonts
        /\ \E d \in SUBSET FontTags : EnterShapeTtf(d)
        /\ UNCHANGED <<result, errAt>>
     \/ /\ fontIdx >= nfonts
        /\ result' = "Ok"
        /\ mpc' = "exit"
        /\ UNCHANGED <<errAt, dir, cmapState, sub, glyphs, out, calls>>
  /\ UNCHANGED dumpVars
  /\ UNCHANGED <<argv, tf, script, lang, fileRead, kind, nfonts, fontIdx>>

\* shape_ttf, lines 66-71
ShapeCmap ==
  /\ mpc = "cmap"
  /\ \/ /\ ~HasCmap(dir)
        /\ cmapState' = "absent"
        /\ calls' = Append(calls, "read_table cmap")
        /\ out' = Append(out, Line("no cmap table"))
        /\ mpc' = "ttf_ret"
        /\ UNCHANGED <<result, errAt>>
     \/ /\ HasCmap(dir)
        /\ cmapState' = "read"
        /\ calls' = calls \o <<"read_table cmap", "read Cmap">>
        /\ mpc' = "subtable"
        /\ UNCHANGED <<result, errAt, out>>
     \/ /\ HasCmap(dir)
        /\ calls' = calls \o <<"read_table cmap", "read Cmap">>
        /\ Fail("Parse")
        /\ UNCHANGED <<cmapState, out>>
  /\ UNCHANGED dumpVars
  /\ UNCHANGED <<argv, tf, script, lang, fileRead, kind, nfonts, fontIdx, dir, sub,
                 glyphs>>

\* shape_ttf, lines 72-77
ShapeSubtable ==
  /\ mpc = "subtable"
  /\ calls' = Append(calls, "read_cmap_subtable")
  /\ \/ /\ Fail("Parse")
        /\ UNCHANGED <<cmapState, sub, out>>
     \/ /\ cmapState' = "nosub"
        /\ out' = Append(out, Line("no suitable cmap subtable"))
        /\ mpc' = "ttf_ret"
        /\ UNCHANGED <<result, errAt, sub>>
     \/ /\ cmapState' = "sub"
        /\ \E m \in Subtables : sub' = <<m>>
        /\ mpc' = "map"
        /\ UNCHANGED <<result, errAt, out>>
  /\ UNCHANGED dumpVars
  /\ UNCHANGED <<argv, tf, script, lang, fileRead, kind, nfonts, fontIdx, dir, glyphs>>

\* shape_ttf, lines 78-84
ShapeMapText ==
  /\ mpc = "map"
  /\ LET r == MapText(sub[1], argv.text)
     IN  /\ calls' = calls \o Repeat("map_glyph", r.n)
         /\ IF r.err
              THEN /\ Fail("Parse")
                   /\ UNCHANGED <<glyphs, out>>
              ELSE /\ glyphs' = Flatten(r.opts)
                   /\ out' = Append(out, GlyphLine("glyphs before", glyphs'))
                   /\ mpc' = "gsub"
                   /\ UNCHANGED <<result, errAt>>
  /\ UNCHANGED dumpVars
  /\ UNCHANGED <<argv, tf, script, lang, fileRead, kind, nfonts, fontIdx, dir,
                 cmapState, sub>>

\* shape_ttf, lines 85-90 and 111-113
ShapeGsub ==
  /\ mpc = "gsub"
  /\ \/ /\ ~HasGsub(dir)
        /\ out' = Append(out, Line("no GSUB table"))
        /\ mpc' = "ttf_ret"
        /\ UNCHANGED <<result, errAt, calls>>
     \/ /\ HasGsub(dir)
        /\ calls' = calls \o <<"read_table GSUB">>
                          \o (IF HasGdef(dir) THEN <<"read_table GDEF">> ELSE <<>>)
        /\ \/ /\ mpc' = "apply"
              /\ UNCHANGED <<result, errAt>>
           \/ Fail("Parse")
        /\ UNCHANGED out
  /\ UNCHANGED dumpVars
  /\ UNCHANGED <<argv, tf, script, lang, fileRead, kind, nfonts, fontIdx, dir,
                 cmapState, sub, glyphs>>

\* What gsub_apply_default may leave in the glyph vector when it answers true:
\* the first glyph replaced by another glyph of the font.
Substituted(g) ==
  IF g = <<>> THEN {}
  ELSE {[g EXCEPT ![1].glyph_index = <<i>>] : i \in GlyphIds \ {g[1].glyph_index[1]}}

\* shape_ttf lines 91-110 and with_tables, lines 117-130
ShapeApply ==
  /\ mpc = "apply"
  /\ LET parsed == <<"parse GSUB">>
                   \o (IF HasGdef(dir) THEN <<"parse GDEF">> ELSE <<>>)
     IN  \/ /\ calls' = calls \o parsed
            /\ Fail("Parse")
            /\ UNCHANGED <<glyphs, out>>
         \/ /\ calls' = calls \o parsed \o <<"gsub_apply_default">>
            /\ Fail("Shaping")
            /\ UNCHANGED <<glyphs, out>>
         \/ /\ calls' = calls \o parsed \o <<"gsub_apply_default">>
            /\ out' = Append(out, ResLine(FALSE))
            /\ mpc' = "ttf_ret"
            /\ UNCHANGED <<glyphs, result, errAt>>
         \/ /\ calls' = calls \o parsed \o <<"gsub_apply_default">>
            /\ \E g \in Substituted(glyphs) : glyphs' = g
            /\ out' = out \o <<ResLine(TRUE), GlyphLine("glyphs after", glyphs')>>
            /\ mpc' = "ttf_ret"
            /\ UNCHANGED <<result, errAt>>
         \/ /\ calls' = calls \o parsed \o <<"gsub_apply_default", "make_dotted_circle">>
            /\ glyphs' = MakeDottedCircle(sub[1]) \o glyphs
            /\ out' = out \o <<ResLine(TRUE), GlyphLine("glyphs after", glyphs')>>
            /\ mpc' = "ttf_ret"
            /\ UNCHANGED <<result, errAt>>
  /\ UNCHANGED dumpVars
  /\ UNCHANGED <<argv, tf, script, lang, fileRead, kind, nfonts, fontIdx, dir,
                 cmapState, sub>>

\* shape_ttf's Ok(()), line 114, back in main (lines 30, 34) or shape_ttc (54)
ShapeTtfReturn ==
  /\ mpc = "ttf_ret"
  /\ IF kind = "Single"
       THEN /\ result' = "Ok"
            /\ mpc' = "exit"
            /\ UNCHANGED fontIdx
       ELSE /\ fontIdx' = fontIdx + 1
            /\ mpc' = "ttc_loop"
            /\ UNCHANGED result
  /\ UNCHANGED dumpVars
  /\ UNCHANGED <<argv, tf, script, lang, errAt, fileRead, kind, nfonts, dir,
                 cmapState, sub, glyphs, out, calls>>

(***************************************************************************)
(* Specification of the shape tool.  SCRIPT and LANG range over the        *)
(* strings of at most MaxArgLen characters of which at most one is not a   *)
(* printable ASCII letter; TEXT over the strings of at most MaxText        *)
(* characters of TextChars.                                                *)
(***************************************************************************)
ArgChars == {97, 31, 233}

ArgStrings ==
  {s \in SeqsUpTo(ArgChars, MaxArgLen) :
     Cardinality({i \in 1..Len(s) : BadChar(s[i])}) <= 1}

Texts == SeqsUpTo(TextChars, MaxText)

InitShape ==
  /\ \/ argv = NoArgs
     \/ \E s \in ArgStrings, l \in ArgStrings, t \in Texts :
          argv = [argc5 |-> TRUE, script |-> s, lang |-> l, text |-> t]
  /\ mpc = "start"
  /\ tf = TagIdle
  /\ ShapeIdle
  /\ DumpIdle

NextShape ==
  \/ ShapeMainArgs
  \/ TagCheckLen
  \/ TagForChar
  \/ TagForEnd
  \/ TagPadTest
  \/ TagPad
  \/ TagReturn
  \/ ShapeMainScript
  \/ ShapeMainLang
  \/ ShapeReadFile
  \/ ShapeParseFile
  \/ ShapeTtcFont
  \/ ShapeCmap
  \/ ShapeSubtable
  \/ ShapeMapText
  \/ ShapeGsub
  \/ ShapeApply
  \/ ShapeTtfReturn

SpecShape == InitShape /\ [][NextShape]_vars

\* The tool is one thread: while a step is possible, one is taken.
FairSpecShape == SpecShape /\ WF_vars(NextShape)

(***************************************************************************)
(* Claims about tag_from_string and the shape tool.                        *)
(***************************************************************************)
\* A tag argument as the specification admits it: at most 4 characters, all
\* ASCII and none a control character.
AdmissibleTag(s) == Len(s) <= TagBytes /\ \A i \in 1..Len(s) : ~BadChar(s[i])

\* s left-justified and right-padded with spaces to 4 characters
PadRight(s) == s \o [i \in 1..(TagBytes - Len(s)) |-> SpaceChar]

\* the 4 bytes of a u32, most significant first
TagRender(t) ==
  <<t \div 16777216, (t \div 65536) % 256, (t \div 256) % 256, t % 256>>

TagReturned == tf.pc = "ret"

\* C1: for every string s of 0 to 4 ASCII, non-control characters,
\* tag_from_string(s) returns Ok(t) with t the big-endian packing of s
\* right-padded with spaces to 4 bytes: rendering t gives back PadRight(s).
C1_TagPacksPadded ==
  AdmissibleTag(tf.s) ~>
    (TagReturned /\ tf.ret[1].ok /\ TagRender(tf.ret[1].tag) = PadRight(tf.s))

\* C10: tag_from_string terminates on every input string: the call
\* eventually returns Ok(tag) or Err(BadValue).
C10_TagTerminates == <>TagReturned

\* What the code does return when it returns: a 4-character admissible string
\* is packed as C1 says, and every other return is Err(BadValue) of an
\* inadmissible string.
TagReturnsOnlyFullOrErr ==
  TagReturned =>
    IF tf.ret[1].ok
      THEN AdmissibleTag(tf.s) /\ Len(tf.s) = TagBytes /\ TagRender(tf.ret[1].tag) = tf.s
      ELSE ~AdmissibleTag(tf.s)

\* C2: in the shape tool, when SCRIPT or LANG is longer than 4 characters or
\* holds a non-ASCII or control character, the run fails with BadValue, and
\* does so before the font file is read.
C2_BadTagFailsBeforeRead ==
  (argv.argc5 /\ (~AdmissibleTag(argv.script) \/ ~AdmissibleTag(argv.lang)))
    ~> (mpc = "exit" /\ result = "BadValue" /\ ~fileRead)

\* The part of C2 that no run violates: read_file is never reached with an
\* inadmissible SCRIPT or LANG.
ShapeReadsOnlyWithTags ==
  fileRead => AdmissibleTag(argv.script) /\ AdmissibleTag(argv.lang)

HasErrLookup(m, text) == \E i \in 1..Len(text) : m[text[i]][1] = "Err"

MappedChars(m, text) ==
  LET IsMapped(c) == m[c][1] = "Some"
  IN  SelectSeq(text, IsMapped)

\* C4: in shape_ttf, a character without a glyph mapping is dropped without
\* error and without a placeholder: once the text has been mapped, the
\* 'glyphs before' line holds exactly the mapped characters of the text, in
\* order, each as one glyph carrying the character and its glyph index, and
\* the mapping step fails only on a lookup that is itself an Err.
C4_UnmappedDropped ==
  (cmapState = "sub" /\ mpc # "map") =>
    LET m == sub[1]
        text == argv.text
        kept == MappedChars(m, text)
    IN  IF errAt = "map"
          THEN HasErrLookup(m, text)
          ELSE /\ Len(out) >= 1
               /\ out[1].k = "glyphs before"
               /\ Len(out[1].g) = Cardinality({i \in 1..Len(text) : m[text[i]][1] = "Some"})
               /\ Len(out[1].g) = Len(kept)
               /\ \A i \in 1..Len(kept) :
                    /\ out[1].g[i].unicodes = <<kept[i]>>
                    /\ out[1].g[i].glyph_origin = <<"Char", kept[i]>>
                    /\ out[1].g[i].glyph_index = <<m[kept[i]][2]>>
               /\ (mpc = "gsub" => glyphs = out[1].g)

\* C4's case: a text of an unmapped and a mapped character has reached the
\* GSUB step with one glyph.
C4_Witness ==
  /\ mpc = "gsub"
  /\ Len(argv.text) = 2
  /\ sub[1][argv.text[1]][1] = "None"
  /\ sub[1][argv.text[2]][1] = "Some"
  /\ Len(glyphs) = 1

\* C5: in shape_ttf, with a cmap subtable and no GSUB table, 'glyphs before'
\* is printed first and 'no GSUB table' after it, the substitution is never
\* invoked (no GSUB or GDEF read or parse, no fallback glyph), neither 'res'
\* nor 'glyphs after' is printed, and the call returns success; the one
\* failure such a call can end in is a character lookup that is an Err.
C5_NoGsubStops ==
  (cmapState = "sub" /\ "GSUB" \notin dir) =>
    /\ \A i \in 1..Len(out) : out[i].k \in {"glyphs before", "no GSUB table"}
    /\ \A i \in 1..Len(calls) :
         calls[i] \in {"read_table cmap", "read Cmap", "read_cmap_subtable", "map_glyph"}
    /\ (mpc \notin {"map", "gsub"} /\ errAt # "map") =>
         /\ Len(out) = 2
         /\ out[1] = GlyphLine("glyphs before", glyphs)
         /\ out[2] = Line("no GSUB table")
    /\ mpc = "gsub" => (Len(out) = 1 /\ out[1].k = "glyphs before")
    /\ errAt \in {"", "map", "ttc_loop"}
    /\ errAt = "map" => HasErrLookup(sub[1], argv.text)
    /\ (mpc = "exit" /\ errAt = "") => result = "Ok"

\* C5's case (scenario B): a single font mapping 'A', without GSUB, has run to
\* its end.
C5_Witness ==
  /\ mpc = "exit"
  /\ kind = "Single"
  /\ cmapState = "sub"
  /\ "GSUB" \notin dir
  /\ argv.text = <<65>>
  /\ Len(glyphs) = 1
  /\ glyphs[1].glyph_index = <<3>>
  /\ result = "Ok"

\* C6: in shape_ttf, a font without cmap table, or whose cmap holds no
\* acceptable subtable, gets the matching diagnostic and success: no 'glyphs
\* before' line, no glyph, no character lookup, no GSUB step.
C6_NoCmapStops ==
  /\ (calls # <<>> /\ "cmap" \notin dir) =>
       /\ cmapState = "absent"
       /\ out = <<Line("no cmap table")>>
       /\ calls = <<"read_table cmap">>
  /\ cmapState = "nosub" =>
       /\ out = <<Line("no suitable cmap subtable")>>
       /\ calls = <<"read_table cmap", "read Cmap", "read_cmap_subtable">>
  /\ cmapState \in {"absent", "nosub"} =>
       /\ glyphs = <<>>
       /\ sub = <<>>
       /\ mpc \in {"ttf_ret", "ttc_loop", "exit"}
       /\ errAt \in {"", "ttc_loop"}
       /\ (mpc = "exit" /\ errAt = "") => result = "Ok"

\* C6's case (scenario C): a single font without cmap has run to its end.
C6_Witness ==
  /\ mpc = "exit"
  /\ kind = "Single"
  /\ "cmap" \notin dir
  /\ cmapState = "absent"
  /\ result = "Ok"

(***************************************************************************)
(* The dump tool of src/dump.rs.                                           *)
(***************************************************************************)
ChainTags == {"head", "maxp", "loca", "glyf"}

DumpTags == ChainTags \cup {"name"}

\* A -t argument that tag::from_string rejects.
BadTagArg == "toolong"

TableArgs == DumpTags \cup {BadTagArg}

\* tag::from_string on the -t argument (line 52): Ok(tag) or Err(BadValue)
TagFromString(s) ==
  IF s \in DumpTags THEN [ok |-> TRUE, tag |-> s] ELSE [ok |-> FALSE, tag |-> ""]

\* The -i argument as usize::from_str sees it (line 60): Ok(n) or Err
IndexArgs == {[ok |-> FALSE, n |-> 0]} \cup {[ok |-> TRUE, n |-> k] : k \in 0..MaxFonts}

IndexFormats == {0, 1}

Text(s) == [k |-> "text", s |-> s, f |-> 0, n |-> 0]

Count(s, n) == [k |-> "text", s |-> s, f |-> 0, n |-> n]

\* The bytes of table tag of the font f of the container.
Raw(tag, f) == [k |-> "raw", s |-> tag, f |-> f, n |-> 0]

ErrTty == "Err Message: Not printing binary data to tty."

ErrNotFound == "Err Message: Table not found"

DFail(e) ==
  /\ dres' = e
  /\ dpc' = "exit"

DExit ==
  /\ dres' = "Ok"
  /\ dpc' = "exit"

\* A guard that never refuses.
TtyGuardNever(tbl, isTty) == FALSE

\* line 54: table.is_some() && atty::is(Stream::Stdout)
TtyGuard(tbl, isTty) == tbl # <<>> /\ isTty

\* main, lines 45-70
DumpMainArgs ==
  /\ dpc = "start"
  /\ LET parsed == IF opt.table = <<>> THEN <<>> ELSE <<TagFromString(opt.table[1])>>
         tbl == IF parsed = <<>> THEN <<>> ELSE <<parsed[1].tag>>
     IN  IF opt.help
           THEN /\ derr' = Append(derr, Text("usage"))
                /\ DExit
                /\ UNCHANGED <<table, index>>
         ELSE IF parsed # <<>> /\ ~parsed[1].ok
           THEN /\ DFail("Err Parse")
                /\ UNCHANGED <<table, index, derr>>
         ELSE IF TtyGuard(tbl, tty)
           THEN /\ table' = tbl
                /\ DFail(ErrTty)
                /\ UNCHANGED <<index, derr>>
         ELSE IF opt.index # <<>> /\ ~opt.index[1].ok
           THEN /\ table' = tbl
                /\ DFail("Err Parse")
                /\ UNCHANGED <<index, derr>>
         ELSE IF ~opt.file
           THEN /\ table' = tbl
                /\ index' = IF opt.index = <<>> THEN 0 ELSE opt.index[1].n
                /\ derr' = Append(derr, Text("usage"))
                /\ DExit
         ELSE /\ table' = tbl
              /\ index' = IF opt.index = <<>> THEN 0 ELSE opt.index[1].n
              /\ dpc' = "read_file"
              /\ UNCHANGED <<dres, derr>>
  /\ UNCHANGED shapeVars
  /\ UNCHANGED <<opt, tty, fileOpened, container, dnfonts, dfont, ddir, head, maxp,
                 loca, dout>>

\* main line 72 and read_file, lines 97-102; then the branch of line 74
DumpReadFile ==
  /\ dpc = "read_file"
  /\ fileOpened' = TRUE
  /\ \/ DFail("Err Io")
     \/ /\ dpc' = IF opt.loca THEN "loca_new" ELSE "classify"
        /\ UNCHANGED dres
  /\ UNCHANGED shapeVars
  /\ UNCHANGED <<opt, tty, table, index, container, dnfonts, dfont, ddir, head, maxp,
                 loca, dout, derr>>

\* main, lines 77-86: ReadScope::read::<FontFile> and the dispatch on it
DumpClassify ==
  /\ dpc = "classify"
  /\ \/ /\ DFail("Err Parse")
        /\ UNCHANGED <<container, dnfonts, ddir>>
     \/ /\ container' = "Single"
        /\ dnfonts' = 1
        /\ \E d \in SUBSET DumpTags : ddir' = d
        /\ dpc' = "ttf"
        /\ UNCHANGED dres
     \/ /\ container' = "Collection"
        /\ \E n \in 1..MaxFonts : dnfonts' = n
        /\ dpc' = "ttc"
        /\ UNCHANGED <<dres, ddir>>
     \/ /\ container' = "Woff"
        /\ dnfonts' = 1
        /\ \E d \in SUBSET DumpTags : ddir' = d
        /\ dpc' = "woff"
        /\ UNCHANGED dres
     \/ /\ container' = "Woff2"
        /\ \E n \in 1..MaxFonts : dnfonts' = n
        /\ \E d \in SUBSET DumpTags : ddir' = d
        /\ dpc' = "woff2"
        /\ UNCHANGED dres
  /\ UNCHANGED shapeVars
  /\ UNCHANGED <<opt, tty, fileOpened, table, index, dfont, head, maxp, loca, dout, derr>>

\* dump_ttc, lines 105-108
DumpTtc ==
  /\ dpc = "ttc"
  /\ dout' = Append(dout, Count("TTC", dnfonts))
  /\ dpc' = "ttc_loop"
  /\ UNCHANGED shapeVars
  /\ UNCHANGED <<opt, tty, dres, fileOpened, table, index, container, dnfonts, dfont,
                 ddir, head, maxp, loca, derr>>

\* dump_ttc, lines 109-115: one iteration up to the call of dump_ttf, or the
\* end of the loop and main's Ok(())
DumpTtcFont ==
  /\ dpc = "ttc_loop"
  /\ \/ /\ dfont < dnfonts
        /\ DFail("Err Parse")
        /\ UNCHANGED <<ddir, dout>>
     \/ /\ dfont < dnfonts
        /\ \E d \in SUBSET DumpTags : ddir' = d
        /\ dpc' = "ttf"
        /\ UNCHANGED <<dres, dout>>
     \/ /\ dfont >= dnfonts
        /\ dout' = Append(dout, Text(""))
        /\ DExit
        /\ UNCHANGED ddir
  /\ UNCHANGED shapeVars
  /\ UNCHANGED <<opt, tty, fileOpened, table, index, container, dnfonts, dfont, head,
                 maxp, loca, derr>>

\* dump_ttf's Ok(()), back in main (line 79) or in dump_ttc's loop (line 112)
TtfReturn ==
  IF container = "Single"
    THEN /\ DExit
         /\ UNCHANGED dfont
    ELSE /\ dfont' = dfont + 1
         /\ dpc' = "ttc_loop"
         /\ UNCHANGED dres

\* dump_ttf, lines 118-143, with dump_raw_table, lines 319-325
DumpTtf ==
  /\ dpc = "ttf"
  /\ \/ /\ table # <<>>
        /\ table[1] \in ddir
        /\ \/ DFail("Err Parse")
           \/ DFail("Err Io")
        /\ UNCHANGED <<dfont, dout>>
     \/ /\ table # <<>>
        /\ table[1] \in ddir
        /\ dout' = Append(dout, Raw(table[1], dfont))
        /\ TtfReturn
     \/ /\ table # <<>>
        /\ table[1] \notin ddir
        /\ DFail(ErrNotFound)
        /\ UNCHANGED <<dfont, dout>>
     \/ /\ table = <<>>
        /\ dout' = Append(dout, Text("TTF"))
        /\ DFail("Err Parse")
        /\ UNCHANGED dfont
     \/ /\ table = <<>>
        /\ dout' = dout \o <<Text("TTF")>>
                        \o (IF "name" \in ddir THEN <<Text("name table")>> ELSE <<>>)
        /\ TtfReturn
  /\ UNCHANGED shapeVars
  /\ UNCHANGED <<opt, tty, fileOpened, table, index, container, dnfonts, ddir, head,
                 maxp, loca, derr>>

\* dump_woff, lines 145-189, with dump_raw_table
DumpWoff ==
  /\ dpc = "woff"
  /\ \/ /\ table # <<>>
        /\ table[1] \in ddir
        /\ \/ DFail("Err Parse")
           \/ DFail("Err Io")
        /\ UNCHANGED <<dout, derr>>
     \/ /\ table # <<>>
        /\ table[1] \in ddir
        /\ dout' = Append(dout, Raw(table[1], 0))
        /\ DExit
        /\ UNCHANGED derr
     \/ /\ table # <<>>
        /\ table[1] \notin ddir
        /\ derr' = Append(derr, Text("Table not found"))
        /\ DExit
        /\ UNCHANGED dout
     \/ /\ table = <<>>
        /\ dout' = Append(dout, Text("TTF in WOFF"))
        /\ DFail("Err Parse")
        /\ UNCHANGED derr
     \/ /\ table = <<>>
        /\ dout' = dout \o <<Text("TTF in WOFF")>>
                        \o (IF "name" \in ddir THEN <<Text("name table")>> ELSE <<>>)
        /\ DExit
        /\ UNCHANGED derr
  /\ UNCHANGED shapeVars
  /\ UNCHANGED <<opt, tty, fileOpened, table, index, container, dnfonts, dfont, ddir,
                 head, maxp, loca>>

\* dump_woff2, lines 197-220; ddir is the directory of the font at index
DumpWoff2 ==
  /\ dpc = "woff2"
  /\ \/ /\ table # <<>>
        /\ \/ DFail("Err Parse")
           \/ table[1] \in ddir /\ DFail("Err Io")
        /\ UNCHANGED dout
     \/ /\ table # <<>>
        /\ table[1] \in ddir
        /\ dout' = Append(dout, Raw(table[1], index))
        /\ DExit
     \/ /\ table # <<>>
        /\ table[1] \notin ddir
        /\ DFail(ErrNotFound)
        /\ UNCHANGED dout
     \/ /\ table = <<>>
        /\ dout' = Append(dout, Text("TTF in WOFF2"))
        /\ \/ DFail("Err Parse")
           \/ dpc' = "woff2_glyf" /\ UNCHANGED dres
  /\ UNCHANGED shapeVars
  /\ UNCHANGED <<opt, tty, fileOpened, table, index, container, dnfonts, dfont, ddir,
                 head, maxp, loca, derr>>

(***************************************************************************)
(* The dependent-table chain head, maxp, loca (, glyf).                    *)
(***************************************************************************)
\* A dependency context that always asks for the short offset format.
LocaDepShort(numGlyphs, indexToLocFormat) == [n |-> numGlyphs, fmt |-> 0]

\* The dependency context loca is decoded with: lines 239-243 and 308-309
LocaDep(numGlyphs, indexToLocFormat) == [n |-> numGlyphs, fmt |-> indexToLocFormat]

\* dump_woff2, lines 222-224
DumpWoff2Glyf ==
  /\ dpc = "woff2_glyf"
  /\ \/ /\ "glyf" \notin ddir
        /\ dpc' = "woff2_name"
        /\ UNCHANGED <<dres, dout>>
     \/ /\ "glyf" \in ddir
        /\ dout' = Append(dout, Text(""))
        /\ \/ DFail("Err Parse")
           \/ dpc' = "woff2_head" /\ UNCHANGED dres
  /\ UNCHANGED shapeVars
  /\ UNCHANGED <<opt, tty, fileOpened, table, index, container, dnfonts, dfont, ddir,
                 head, maxp, loca, derr>>

\* dump_woff2, lines 225-229
DumpWoff2Head ==
  /\ dpc = "woff2_head"
  /\ \/ /\ "head" \notin ddir
        /\ DFail("Err Parse")
        /\ UNCHANGED head
     \/ /\ "head" \in ddir
        /\ DFail("Err Parse")
        /\ UNCHANGED head
     \/ /\ "head" \in ddir
        /\ \E f \in IndexFormats : head' = <<f>>
        /\ dpc' = "woff2_maxp"
        /\ UNCHANGED dres
  /\ UNCHANGED shapeVars
  /\ UNCHANGED <<opt, tty, fileOpened, table, index, container, dnfonts, dfont, ddir,
                 maxp, loca, dout, derr>>

\* dump_woff2, lines 230-234
DumpWoff2Maxp ==
  /\ dpc = "woff2_maxp"
  /\ \/ /\ "maxp" \notin ddir
        /\ DFail("Err Parse")
        /\ UNCHANGED maxp
     \/ /\ "maxp" \in ddir
        /\ DFail("Err Parse")
        /\ UNCHANGED maxp
     \/ /\ "maxp" \in ddir
        /\ \E n \in 0..MaxGlyphs : maxp' = <<n>>
        /\ dpc' = "woff2_loca"
        /\ UNCHANGED dres
  /\ UNCHANGED shapeVars
  /\ UNCHANGED <<opt, tty, fileOpened, table, index, container, dnfonts, dfont, ddir,
                 head, loca, dout, derr>>

\* dump_woff2, lines 235-243
DumpWoff2Loca ==
  /\ dpc = "woff2_loca"
  /\ \/ /\ "loca" \notin ddir
        /\ DFail("Err Parse")
        /\ UNCHANGED loca
     \/ /\ "loca" \in ddir
        /\ DFail("Err Parse")
        /\ UNCHANGED loca
     \/ /\ "loca" \in ddir
        /\ loca' = <<LocaDep(maxp[1], head[1])>>
        /\ dpc' = "woff2_records"
        /\ UNCHANGED dres
  /\ UNCHANGED shapeVars
  /\ UNCHANGED <<opt, tty, fileOpened, table, index, container, dnfonts, dfont, ddir,
                 head, maxp, dout, derr>>

\* dump_woff2, lines 244-250
DumpWoff2Records ==
  /\ dpc = "woff2_records"
  /\ \/ /\ DFail("Err Parse")
        /\ UNCHANGED dout
     \/ /\ dout' = Append(dout, Count("Read glyf table", loca[1].n))
        /\ dpc' = "woff2_name"
        /\ UNCHANGED dres
  /\ UNCHANGED shapeVars
  /\ UNCHANGED <<opt, tty, fileOpened, table, index, container, dnfonts, dfont, ddir,
                 head, maxp, loca, derr>>

\* dump_woff2, lines 252-258, and main's Ok(())
DumpWoff2Name ==
  /\ dpc = "woff2_name"
  /\ \/ /\ DFail("Err Parse")
        /\ UNCHANGED dout
     \/ /\ dout' = dout \o (IF "name" \in ddir THEN <<Text("name table")>> ELSE <<>>)
        /\ DExit
  /\ UNCHANGED shapeVars
  /\ UNCHANGED <<opt, tty, fileOpened, table, index, container, dnfonts, dfont, ddir,
                 head, maxp, loca, derr>>

\* dump_loca_table, lines 295-296: FontImpl::new(..).unwrap()
DumpLocaNew ==
  /\ dpc = "loca_new"
  /\ \/ /\ DFail("panic")
        /\ UNCHANGED <<container, ddir>>
     \/ /\ container' = "FontImpl"
        /\ \E d \in SUBSET DumpTags : ddir' = d
        /\ dpc' = "loca_head"
        /\ UNCHANGED dres
  /\ UNCHANGED shapeVars
  /\ UNCHANGED <<opt, tty, fileOpened, table, index, dnfonts, dfont, head, maxp, loca,
                 dout, derr>>

\* dump_loca_table, lines 298-300
DumpLocaHead ==
  /\ dpc = "loca_head"
  /\ \/ /\ "head" \notin ddir
        /\ DFail("panic")
        /\ UNCHANGED head
     \/ /\ "head" \in ddir
        /\ DFail("Err Parse")
        /\ UNCHANGED head
     \/ /\ "head" \in ddir
        /\ \E f \in IndexFormats : head' = <<f>>
        /\ dpc' = "loca_maxp"
        /\ UNCHANGED dres
  /\ UNCHANGED shapeVars
  /\ UNCHANGED <<opt, tty, fileOpened, table, index, container, dnfonts, dfont, ddir,
                 maxp, loca, dout, derr>>

\* dump_loca_table, lines 302-304
DumpLocaMaxp ==
  /\ dpc = "loca_maxp"
  /\ \/ /\ "maxp" \notin ddir
        /\ DFail("panic")
        /\ UNCHANGED maxp
     \/ /\ "maxp" \in ddir
        /\ DFail("Err Parse")
        /\ UNCHANGED maxp
     \/ /\ "maxp" \in ddir
        /\ \E n \in 0..MaxGlyphs : maxp' = <<n>>
        /\ dpc' = "loca_loca"
        /\ UNCHANGED dres
  /\ UNCHANGED shapeVars
  /\ UNCHANGED <<opt, tty, fileOpened, table, index, container, dnfonts, dfont, ddir,
                 head, loca, dout, derr>>

\* dump_loca_table, lines 306-316, and main's Ok(())
DumpLocaLoca ==
  /\ dpc = "loca_loca"
  /\ \/ /\ "loca" \notin ddir
        /\ DFail("panic")
        /\ UNCHANGED <<loca, dout>>
     \/ /\ "loca" \in ddir
        /\ DFail("Err Parse")
        /\ UNCHANGED <<loca, dout>>
     \/ /\ "loca" \in ddir
        /\ loca' = <<LocaDep(maxp[1], head[1])>>
        /\ dout' = Append(dout, Count("loca:", loca'[1].n + 1))
        /\ DExit
  /\ UNCHANGED shapeVars
  /\ UNCHANGED <<opt, tty, fileOpened, table, index, container, dnfonts, dfont, ddir,
                 head, maxp, derr>>

(***************************************************************************)
(* Specification of the dump tool, over every command line of the options  *)
(* -h, -t, -i, -l and FONTFILE, with standard output a terminal or not.    *)
(***************************************************************************)
Opts ==
  [help : BOOLEAN,
   table : {<<>>} \cup {<<s>> : s \in TableArgs},
   index : {<<>>} \cup {<<a>> : a \in IndexArgs},
   loca : BOOLEAN,
   file : BOOLEAN]

InitDump ==
  /\ argv = NoArgs
  /\ mpc = "idle"
  /\ tf = TagIdle
  /\ ShapeIdle
  /\ opt \in Opts
  /\ tty \in BOOLEAN
  /\ dpc = "start"
  /\ dres = "running"
  /\ fileOpened = FALSE
  /\ table = <<>>
  /\ index = 0
  /\ container = "none"
  /\ dnfonts = 0
  /\ dfont = 0
  /\ ddir = {}
  /\ head = <<>>
  /\ maxp = <<>>
  /\ loca = <<>>
  /\ dout = <<>>
  /\ derr = <<>>

NextDump ==
  \/ DumpMainArgs
  \/ DumpReadFile
  \/ DumpClassify
  \/ DumpTtc
  \/ DumpTtcFont
  \/ DumpTtf
  \/ DumpWoff
  \/ DumpWoff2
  \/ DumpWoff2Glyf
  \/ DumpWoff2Head
  \/ DumpWoff2Maxp
  \/ DumpWoff2Loca
  \/ DumpWoff2Records
  \/ DumpWoff2Name
  \/ DumpLocaNew
  \/ DumpLocaHead
  \/ DumpLocaMaxp
  \/ DumpLocaLoca

SpecDump == InitDump /\ [][NextDump]_vars

(***************************************************************************)
(* Claims about the dump tool.                                             *)
(***************************************************************************)
RawTokens(o) ==
  LET IsRaw(x) == x.k = "raw"
  IN  SelectSeq(o, IsRaw)

ChainTokens(o) ==
  LET IsChain(x) == x.s \in {"loca:", "Read glyf table"}
  IN  SelectSeq(o, IsChain)

Abnormal == {"panic", "Err Io", "Err Parse", ErrTty, ErrNotFound}

\* C3: in dump with -t TAG, when TAG is in no table directory of the
\* container the run ends in a fatal outcome and writes no table bytes, for
\* a single font, a collection, WOFF and WOFF2 alike.
C3_MissingTagFatal ==
  (/\ dpc = "exit"
   /\ table # <<>>
   /\ container \in {"Single", "Collection", "Woff", "Woff2"}
   /\ table[1] \notin ddir
   /\ dfont = 0)
    => (dres \in Abnormal /\ RawTokens(dout) = <<>>)

\* C7: in dump on a font collection with -t TAG, -i N selects the font: the
\* table bytes written are exactly the TAG table of the font at index N.
C7_IndexSelectsFont ==
  (/\ dpc = "exit"
   /\ dres = "Ok"
   /\ container = "Collection"
   /\ table # <<>>
   /\ index < dnfonts)
    => RawTokens(dout) = <<Raw(table[1], index)>>

\* C8 as stated (a run that only prints the usage for -h left aside): with
\* -t given and standard output a terminal, the run fails with the guard
\* message, writes no table bytes and never opens the file.
C8_TtyAlwaysGuardMessage ==
  (opt.table # <<>> /\ tty /\ ~opt.help /\ dpc = "exit") =>
    (dres = ErrTty /\ ~fileOpened /\ RawTokens(dout) = <<>>)

\* C8, amended: with -t given and standard output a terminal, no table byte
\* is written and the font file is never opened, whatever the container and
\* whether or not the tag exists; the run fails with the guard message when
\* the TAG is one tag::from_string accepts and -h is absent, prints the usage
\* and succeeds when -h is given, and fails with the bad-value parse error
\* when the TAG is rejected (it is parsed before the guard).
C8_TtyGuard ==
  (opt.table # <<>> /\ tty) =>
    /\ ~fileOpened
    /\ container = "none"
    /\ dout = <<>>
    /\ dpc \in {"start", "exit"}
    /\ dpc = "exit" =>
         dres = IF opt.help THEN "Ok"
                ELSE IF ~TagFromString(opt.table[1]).ok THEN "Err Parse"
                ELSE ErrTty

\* C8's case: dump -t head FONTFILE on a terminal has been refused.
C8_Witness ==
  /\ dpc = "exit"
  /\ tty
  /\ ~opt.help
  /\ opt.file
  /\ opt.table = <<"head">>
  /\ dres = ErrTty

\* The runs that enter the chain: dump_loca_table, or the glyph section of
\* dump_woff2, which a glyf entry opens.
ChainEntered ==
  container = "FontImpl" \/ (container = "Woff2" /\ table = <<>> /\ "glyf" \in ddir)

\* C9 as stated: in a run that enters the chain, any missing table of head,
\* maxp, loca, glyf is fatal and leaves no output of the chain.
C9_AnyMissingFatal ==
  (ChainEntered /\ ChainTags \ ddir # {} /\ dpc = "exit") =>
    (dres \in Abnormal /\ ChainTokens(dout) = <<>>)

\* C9, amended: in a run that enters the chain, a missing head, maxp or loca
\* is fatal (a panic in dump_loca_table, Err(BadValue) in dump_woff2) and
\* leaves no 'loca:' and no 'Read glyf table' output; a missing glyf is not:
\* dump_loca_table never fetches glyf, and dump_woff2 skips its glyph section
\* (no table of the chain is decoded) and goes on.  loca is decoded only
\* after head and maxp, with num_glyphs of maxp and index_to_loc_format of
\* head.
C9_ChainFatal ==
  /\ (ChainEntered /\ {"head", "maxp", "loca"} \ ddir # {}) =>
       /\ loca = <<>>
       /\ ChainTokens(dout) = <<>>
       /\ dpc = "exit" => dres \in {"panic", "Err Parse"}
  /\ (container = "Woff2" /\ "glyf" \notin ddir) =>
       /\ head = <<>> /\ maxp = <<>> /\ loca = <<>>
       /\ ChainTokens(dout) = <<>>
       /\ dpc \notin {"woff2_head", "woff2_maxp", "woff2_loca", "woff2_records"}
  /\ maxp # <<>> => head # <<>>
  /\ loca # <<>> =>
       /\ head # <<>>
       /\ maxp # <<>>
       /\ loca[1].n = maxp[1]
       /\ loca[1].fmt = head[1]
  /\ ChainTokens(dout) # <<>> => loca # <<>>

\* C9's case: dump -l on a font with head and maxp but no loca has panicked
\* after decoding both.
C9_Witness ==
  /\ dpc = "exit"
  /\ container = "FontImpl"
  /\ "loca" \notin ddir
  /\ head # <<>>
  /\ maxp # <<>>
  /\ dres = "panic"
  /\ dout = <<>>

====
